---- MODULE Spec2Model ----
(***************************************************************************)
(* Model of hardware/tunable_laser.py: the TunableLaser adapter, the VISA   *)
(* session it talks through and a stateful SCPI instrument behind it.       *)
(*                                                                          *)
(* Numbers are decimal floating point records [m |-> mantissa, e |-> exp],  *)
(* standing for m * 10^e, so that the adapter's "* 1e9" and the             *)
(* instrument's reading of an "NM" suffix are real conversions (e + 9 and   *)
(* e - 9) and a missing conversion shows.  Binary rounding of Python floats *)
(* is not modelled.  Texts are sequences of one-character strings, so that  *)
(* upper() and strip('\n') are computed character by character.             *)
(***************************************************************************)
EXTENDS Integers, Sequences, FiniteSets, TLC

VARIABLES
    device,       \* TunableLaser.device: None or a reference to the session
    session,      \* state of the session object device refers to
    _wavelength,  \* TunableLaser._wavelength
    _idn,         \* TunableLaser._idn
    instr,        \* the instrument's own settings
    outq,         \* responses the instrument produced and nobody read yet
    faulted,      \* whether the transport has failed since the session was opened
    lastOp        \* the last operation of the adapter and how it ended

vars == <<device, session, _wavelength, _idn, instr, outq, faulted, lastOp>>

(***************************************************************************)
(* Python values                                                            *)
(***************************************************************************)
\* Every Python value carries its type in the field t.
PyNone == [t |-> "NoneType"]

Num(m, e) == [t |-> "float", m |-> m, e |-> e]

PyInt(i) == [t |-> "int", i |-> i]

PyBool(b) == [t |-> "bool", b |-> b]

Str(s) == [t |-> "str", s |-> s]

Tuple(items) == [t |-> "tuple", items |-> items]

\* the text of a numeric response line, when it is read as text
NumText(x) == [t |-> "str", s |-> <<"#">>, of |-> x]

\* x * 1e9 for a float x
Times1e9(x) == Num(x.m, x.e + 9)

RECURSIVE Pow10(_)
Pow10(n) == IF n <= 0 THEN 1 ELSE 10 * Pow10(n - 1)

\* int(x): truncation toward zero
IntOf(x) ==
    IF x.e >= 0 THEN x.m * Pow10(x.e)
    ELSE IF x.m >= 0 THEN x.m \div Pow10(-x.e)
    ELSE -((-x.m) \div Pow10(-x.e))

\* a <= b for two numbers
NumLE(a, b) ==
    LET lo == IF a.e < b.e THEN a.e ELSE b.e
    IN  a.m * Pow10(a.e - lo) <= b.m * Pow10(b.e - lo)

(***************************************************************************)
(* Texts                                                                    *)
(***************************************************************************)
UPPERCASE == <<"A","B","C","D","E","F","G","H","I","J","K","L","M",
               "N","O","P","Q","R","S","T","U","V","W","X","Y","Z">>
LOWERCASE == <<"a","b","c","d","e","f","g","h","i","j","k","l","m",
               "n","o","p","q","r","s","t","u","v","w","x","y","z">>

UpperChar(c) ==
    IF \E i \in DOMAIN LOWERCASE : LOWERCASE[i] = c
    THEN UPPERCASE[CHOOSE i \in DOMAIN LOWERCASE : LOWERCASE[i] = c]
    ELSE c

LowerChar(c) ==
    IF \E i \in DOMAIN UPPERCASE : UPPERCASE[i] = c
    THEN LOWERCASE[CHOOSE i \in DOMAIN UPPERCASE : UPPERCASE[i] = c]
    ELSE c

\* str.upper()
Upper(s) == [i \in DOMAIN s |-> UpperChar(s[i])]

Lower(s) == [i \in DOMAIN s |-> LowerChar(s[i])]

Capitalized(s) == [i \in DOMAIN s |-> IF i = 1 THEN UpperChar(s[i]) ELSE LowerChar(s[i])]

RECURSIVE LStrip(_, _)
LStrip(s, c) == IF s # <<>> /\ Head(s) = c THEN LStrip(Tail(s), c) ELSE s

RECURSIVE RStrip(_, _)
RStrip(s, c) ==
    IF s # <<>> /\ s[Len(s)] = c THEN RStrip(SubSeq(s, 1, Len(s) - 1), c) ELSE s

\* str.strip(c)
Strip(s, c) == RStrip(LStrip(s, c), c)

(***************************************************************************)
(* Enumerations (BaseEnum): a variant is its name and its value, and        *)
(* Enum[text] is the lookup by name.                                        *)
(***************************************************************************)
Variant(enum, name, value) == [t |-> enum, name |-> name, value |-> value]

DISABLED == Variant("TriggerOutput", <<"D","I","S","A","B","L","E","D">>, 0)
STFINISHED == Variant("TriggerOutput", <<"S","T","F","I","N","I","S","H","E","D">>, 1)
SWFINISHED == Variant("TriggerOutput", <<"S","W","F","I","N","I","S","H","E","D">>, 2)
SWSTART == Variant("TriggerOutput", <<"S","W","S","T","A","R","T">>, 3)

TriggerOutput == {DISABLED, STFINISHED, SWFINISHED, SWSTART}

STEP == Variant("SweepMode", <<"S","T","E","P">>, 0)
MAN == Variant("SweepMode", <<"M","A","N">>, 1)
CONT == Variant("SweepMode", <<"C","O","N","T">>, 2)

SweepMode == {STEP, MAN, CONT}

HasName(enum, text) == \E v \in enum : v.name = text

ByName(enum, text) == CHOOSE v \in enum : v.name = text

(***************************************************************************)
(* SCPI messages: the f-string head, the formatted argument and the tail.   *)
(***************************************************************************)
Msg(head, arg, tail) == [head |-> head, arg |-> arg, tail |-> tail]

Query(head) == Msg(head, Str(<<>>), "")

RECURSIVE Join(_)
Join(chars) == IF chars = <<>> THEN "" ELSE Head(chars) \o Join(Tail(chars))

\* str(x) inside an f-string, for the argument types the adapter formats;
\* numeric arguments are whole numbers, written as Python writes an int
ArgText(a) ==
    CASE a.t = "int" -> ToString(a.i)
      [] a.t = "float" -> ToString(a.m * Pow10(a.e))
      [] a.t = "str" -> Join(a.s)

\* the text that goes on the wire
Text(msg) == msg.head \o ArgText(msg.arg) \o msg.tail

(***************************************************************************)
(* The instrument: a stateful SCPI device that keeps what it is sent,       *)
(* reports lengths in metres and speeds in m/s, ignores a wavelength         *)
(* outside its limits and a lock command without its passcode, and answers  *)
(* every query with one response line.  As IEEE 488.2 prescribes, a message *)
(* that arrives while a response is still unread discards that response.    *)
(***************************************************************************)
IDN == <<"K","-","N","7","7","7","8","C">>

LockCode == ",1234"

WlMin == Num(1450, -9)
WlMax == Num(1650, -9)

InRange(x) == NumLE(WlMin, x) /\ NumLE(x, WlMax)

InstrInit ==
    [wl |-> Num(1550, -9), trig |-> DISABLED.name, cycles |-> 1, mode |-> STEP.name,
     speed |-> Num(40, -9), start |-> Num(1500, -9), stop |-> Num(1600, -9),
     step |-> Num(1, -9), power |-> 0, lock |-> 0]

\* the value of "<number>NM" and "<number>NM/S": nano-units to units
FromNano(x) == Num(x.m, x.e - 9)

Styles == {"upper", "lower", "capitalized"}

Styled(text, style) ==
    CASE style = "upper" -> Upper(text)
      [] style = "lower" -> Lower(text)
      [] OTHER -> Capitalized(text)

Line(text) == Str(Append(text, "\n"))

\* The settings after the instrument has executed a command.
DeviceSet(ins, msg) ==
    LET h == msg.head
        a == msg.arg
    IN  CASE h = ":SOURce0:WAVelength " /\ msg.tail = "NM" ->
               IF InRange(FromNano(a)) THEN [ins EXCEPT !.wl = FromNano(a)] ELSE ins
          [] h = ":TRIG0:OUTP " -> [ins EXCEPT !.trig = a.s]
          [] h = ":SOURce0:WAVelength:SWEep:CYCLes " -> [ins EXCEPT !.cycles = a.i]
          [] h = ":SOURce0:WAVelength:SWEep:MODE " -> [ins EXCEPT !.mode = a.s]
          [] h = ":SOURce0:WAVelength:SWEep:SPEed " /\ msg.tail = "NM/S" ->
               [ins EXCEPT !.speed = FromNano(a)]
          [] h = ":SOURce0:WAVelength:SWEep:STEP " /\ msg.tail = "NM" ->
               [ins EXCEPT !.step = FromNano(a)]
          [] h = ":SOURce0:WAVelength:SWEep:STARt " /\ msg.tail = "NM" ->
               IF InRange(FromNano(a)) THEN [ins EXCEPT !.start = FromNano(a)] ELSE ins
          [] h = ":SOURce0:WAVelength:SWEep:STOP " /\ msg.tail = "NM" ->
               IF InRange(FromNano(a)) THEN [ins EXCEPT !.stop = FromNano(a)] ELSE ins
          [] h = ":SOURce0:POWer:STATe " -> [ins EXCEPT !.power = a.i]
          [] h = ":LOCK " ->
               IF msg.tail = LockCode THEN [ins EXCEPT !.lock = a.i] ELSE ins
          [] OTHER -> ins

\* The response lines the instrument produces for a message: one for a
\* query, none for a command.
DeviceAnswer(ins, msg, style) ==
    LET h == msg.head
    IN  CASE h = "*IDN?" -> <<Line(IDN)>>
          [] h = ":SOURce0:WAVelength?" -> <<ins.wl>>
          [] h = ":SOURce0:WAVelength? MIN" -> <<WlMin>>
          [] h = ":SOURce0:WAVelength? MAX" -> <<WlMax>>
          [] h = ":TRIG0:OUTP?" -> <<Line(Styled(ins.trig, style))>>
          [] h = ":SOURce0:WAVelength:SWEep:CYCLes?" -> <<Num(ins.cycles, 0)>>
          [] h = ":SOURce0:WAVelength:SWEep:MODE?" -> <<Line(Styled(ins.mode, style))>>
          [] h = ":SOURce0:WAVelength:SWEep:SPEed?" -> <<ins.speed>>
          [] h = ":SOURce0:WAVelength:SWEep:STARt?" -> <<ins.start>>
          [] h = ":SOURce0:WAVelength:SWEep:STEP?" -> <<ins.step>>
          [] h = ":SOURce0:WAVelength:SWEep:STOP?" -> <<ins.stop>>
          [] h = ":SOURce0:POWer:STATe?" -> <<Num(ins.power, 0)>>
          [] h = ":LOCK?" -> <<Num(ins.lock, 0)>>
          [] OTHER -> <<>>

(***************************************************************************)
(* Execution of one operation.  A context carries the adapter's fields, the *)
(* session, the instrument and what the call has done so far; err is the    *)
(* exception that is propagating ("" for none) and val the value of the     *)
(* last expression.  fail = k makes the k-th transport call of the          *)
(* operation raise.                                                         *)
(***************************************************************************)
NoDevice == "None"
TheSession == "session"

Raise(c, e) == [c EXCEPT !.err = e, !.val = PyNone]

Countdown(k) == IF k > 1 THEN k - 1 ELSE 0

\* Variant: a write that is sent again when the transport fails, and succeeds.
SessionWrite_retrying(c, msg) ==
    IF c.session # "open" THEN [Raise(c, "InvalidSession") EXCEPT !.closedUse = TRUE]
    ELSE [c EXCEPT !.instr = DeviceSet(c.instr, msg),
                   !.outq = DeviceAnswer(c.instr, msg, c.style),
                   !.trace = Append(c.trace, [k |-> "W", msg |-> msg]),
                   !.faulted = c.faulted \/ c.fail = 1,
                   !.fail = Countdown(c.fail)]

\* TCPIPInstrument.write(message)
SessionWrite(c, msg) ==
    IF c.session # "open" THEN [Raise(c, "InvalidSession") EXCEPT !.closedUse = TRUE]
    ELSE IF c.fail = 1 THEN [Raise(c, "VisaIOError") EXCEPT !.faulted = TRUE, !.fail = 0]
    ELSE [c EXCEPT !.instr = DeviceSet(c.instr, msg),
                   !.outq = DeviceAnswer(c.instr, msg, c.style),
                   !.trace = Append(c.trace, [k |-> "W", msg |-> msg]),
                   !.fail = Countdown(c.fail)]

\* One response line taken from the session: TCPIPInstrument.read() and the
\* read inside read_ascii_values().  A read that fails leaves the line unread.
SessionRead(c) ==
    IF c.session # "open" THEN [Raise(c, "InvalidSession") EXCEPT !.closedUse = TRUE]
    ELSE IF c.outq = <<>> THEN [Raise(c, "VisaIOError") EXCEPT !.emptyRead = TRUE]
    ELSE IF c.fail = 1 THEN [Raise(c, "VisaIOError") EXCEPT !.faulted = TRUE, !.fail = 0]
    ELSE [c EXCEPT !.val = Head(c.outq),
                   !.outq = Tail(c.outq),
                   !.trace = Append(c.trace, [k |-> "R", line |-> Head(c.outq)]),
                   !.fail = Countdown(c.fail)]

\* TunableLaser._write
_write(c, msg) ==
    IF c.err # "" THEN c
    ELSE IF c.device # NoDevice THEN SessionWrite(c, msg)
    ELSE c

\* TunableLaser._read
_read(c) ==
    IF c.err # "" THEN c
    ELSE IF c.device # NoDevice
         THEN LET r == SessionRead(c)
              IN  IF r.err # "" THEN r
                  ELSE IF r.val.t = "str" THEN [r EXCEPT !.val = Str(Strip(r.val.s, "\n"))]
                  ELSE [r EXCEPT !.val = NumText(r.val)]
    ELSE [c EXCEPT !.val = PyNone]

\* TunableLaser._read_number
_read_number(c) ==
    IF c.err # "" THEN c
    ELSE IF c.device # NoDevice
         THEN LET r == SessionRead(c)
              IN  IF r.err # "" THEN r
                  ELSE IF r.val.t = "float" THEN r
                  ELSE Raise(r, "ValueError")
    ELSE [c EXCEPT !.val = PyNone]

\* c.val * 1e9
MulE9(c) ==
    IF c.err # "" THEN c
    ELSE IF c.val.t = "float" THEN [c EXCEPT !.val = Times1e9(c.val)]
    ELSE Raise(c, "TypeError")

\* int(c.val)
ToInt(c) ==
    IF c.err # "" THEN c
    ELSE IF c.val.t = "float" THEN [c EXCEPT !.val = PyInt(IntOf(c.val))]
    ELSE Raise(c, "TypeError")

\* bool(c.val) of an int
ToBool(c) ==
    IF c.err # "" THEN c
    ELSE [c EXCEPT !.val = PyBool(c.val.i # 0)]

\* c.val.upper()
ToUpper(c) ==
    IF c.err # "" THEN c
    ELSE IF c.val.t = "str" THEN [c EXCEPT !.val = Str(Upper(c.val.s))]
    ELSE Raise(c, "AttributeError")

\* Enum[c.val]
Lookup(c, enum) ==
    IF c.err # "" THEN c
    ELSE IF c.val.t = "str" /\ HasName(enum, c.val.s)
         THEN [c EXCEPT !.val = ByName(enum, c.val.s)]
    ELSE Raise(c, "KeyError")

(***************************************************************************)
(* The methods of TunableLaser, each from the context at its call to the    *)
(* context at its return or at the raise that ends it.                      *)
(***************************************************************************)
Command(head) == Msg(head, Str(<<>>), "")

Returning(c, v) == IF c.err # "" THEN c ELSE [c EXCEPT !.val = v]

\* open_communication; reachable says whether visa_rm.open_resource succeeds
open_communication(c, reachable) ==
    IF ~reachable THEN Raise(c, "VisaIOError")
    ELSE LET opened == [c EXCEPT !.device = TheSession, !.session = "open",
                                 !.outq = <<>>, !.faulted = FALSE]
             r == _read(_write(opened, Query("*IDN?")))
         IN  IF r.err # "" THEN r ELSE [r EXCEPT !._idn = r.val]

\* close_communication
close_communication(c) ==
    IF c.device = NoDevice THEN Raise(c, "AttributeError")
    ELSE [c EXCEPT !.session = "closed", !.val = PyNone]

\* wavelength (getter)
wavelength_get(c) ==
    LET r == MulE9(_read_number(_write(c, Query(":SOURce0:WAVelength?"))))
    IN  IF r.err # "" THEN r ELSE [r EXCEPT !._wavelength = r.val]

\* Variant: a setter that remembers its argument instead of asking the instrument.
wavelength_set_remembering(c, wavelength) ==
    LET w == _write(c, Msg(":SOURce0:WAVelength ", wavelength, "NM"))
    IN  IF w.err # "" THEN w ELSE [w EXCEPT !._wavelength = wavelength, !.val = PyNone]

\* wavelength (setter)
wavelength_set(c, wavelength) ==
    Returning(wavelength_get(_write(c, Msg(":SOURce0:WAVelength ", wavelength, "NM"))),
              PyNone)

get_wavelength_limits(c) ==
    LET lo == _read_number(_write(c, Query(":SOURce0:WAVelength? MIN")))
        hi == _read_number(_write(lo, Query(":SOURce0:WAVelength? MAX")))
    IN  Returning(hi, Tuple(<<lo.val, hi.val>>))

\* Variant: a getter that looks the answer up without upper().
output_trigger_get_cased(c) ==
    Lookup(_read(_write(c, Query(":TRIG0:OUTP?"))), TriggerOutput)

output_trigger_get(c) ==
    Lookup(ToUpper(_read(_write(c, Query(":TRIG0:OUTP?")))), TriggerOutput)

output_trigger_set(c, trigger) ==
    _write(c, Msg(":TRIG0:OUTP ", Str(trigger.name), ""))

sweep_cycles_get(c) ==
    ToInt(_read_number(_write(c, Query(":SOURce0:WAVelength:SWEep:CYCLes?"))))

sweep_cycles_set(c, ncycles) ==
    _write(c, Msg(":SOURce0:WAVelength:SWEep:CYCLes ", PyInt(ncycles), ""))

sweep_mode_get(c) ==
    Lookup(ToUpper(_read(_write(c, Query(":SOURce0:WAVelength:SWEep:MODE?")))), SweepMode)

sweep_mode_set(c, mode) ==
    _write(c, Msg(":SOURce0:WAVelength:SWEep:MODE ", Str(mode.name), ""))

sweep_speed_get(c) ==
    MulE9(_read_number(_write(c, Query(":SOURce0:WAVelength:SWEep:SPEed?"))))

sweep_speed_set(c, speed) ==
    _write(c, Msg(":SOURce0:WAVelength:SWEep:SPEed ", speed, "NM/S"))

\* Variant: the triple returned in the order it was queried (start, step, stop).
configure_sweep_as_queried(c, start, stop, step) ==
    LET w1 == _write(c, Msg(":SOURce0:WAVelength:SWEep:STEP ", step, "NM"))
        w2 == _write(w1, Msg(":SOURce0:WAVelength:SWEep:STARt ", start, "NM"))
        w3 == _write(w2, Msg(":SOURce0:WAVelength:SWEep:STOP ", stop, "NM"))
        q1 == MulE9(_read_number(_write(w3, Query(":SOURce0:WAVelength:SWEep:STARt?"))))
        q2 == MulE9(_read_number(_write(q1, Query(":SOURce0:WAVelength:SWEep:STEP?"))))
        q3 == MulE9(_read_number(_write(q2, Query(":SOURce0:WAVelength:SWEep:STOP?"))))
    IN  Returning(q3, Tuple(<<q1.val, q2.val, q3.val>>))

configure_sweep(c, start, stop, step) ==
    LET w1 == _write(c, Msg(":SOURce0:WAVelength:SWEep:STEP ", step, "NM"))
        w2 == _write(w1, Msg(":SOURce0:WAVelength:SWEep:STARt ", start, "NM"))
        w3 == _write(w2, Msg(":SOURce0:WAVelength:SWEep:STOP ", stop, "NM"))
        q1 == MulE9(_read_number(_write(w3, Query(":SOURce0:WAVelength:SWEep:STARt?"))))
        q2 == MulE9(_read_number(_write(q1, Query(":SOURce0:WAVelength:SWEep:STEP?"))))
        q3 == MulE9(_read_number(_write(q2, Query(":SOURce0:WAVelength:SWEep:STOP?"))))
    IN  Returning(q3, Tuple(<<q1.val, q3.val, q2.val>>))

\* Variant: start_sweep followed by a confirmation read.
start_sweep_confirming(c) ==
    _read(_write(c, Command(":SOURce0:WAVelength:SWEep STARt")))

start_sweep(c) ==
    _write(c, Command(":SOURce0:WAVelength:SWEep STARt"))

laser_status_get(c) ==
    ToBool(ToInt(_read_number(_write(c, Query(":SOURce0:POWer:STATe?")))))

laser_status_set(c, status) ==
    _write(c, Msg(":SOURce0:POWer:STATe ", PyInt(IF status = TRUE THEN 1 ELSE 0), ""))

locked_get(c) ==
    ToBool(ToInt(_read_number(_write(c, Query(":LOCK?")))))

\* Variant: the lock command without the passcode.
locked_set_bare(c, lock) ==
    _write(c, Msg(":LOCK ", PyInt(IF lock = TRUE THEN 1 ELSE 0), ""))

locked_set(c, lock) ==
    _write(c, Msg(":LOCK ", PyInt(IF lock = TRUE THEN 1 ELSE 0), ",1234"))

(***************************************************************************)
(* State machine                                                            *)
(***************************************************************************)
Idle == [op |-> "__init__", arg |-> PyNone, dev0 |-> NoDevice, sess0 |-> "none",
         fail |-> 0, err |-> "", ret |-> PyNone, trace |-> <<>>,
         closedUse |-> FALSE, emptyRead |-> FALSE]

\* __init__, with the instrument at its power-on settings
Init ==
    /\ device = NoDevice
    /\ session = "none"
    /\ _wavelength = PyNone
    /\ _idn = PyNone
    /\ instr = InstrInit
    /\ outq = <<>>
    /\ faulted = FALSE
    /\ lastOp = Idle

\* The context of a call made in the current state.
Call(fail, style) ==
    [device |-> device, session |-> session, _wavelength |-> _wavelength, _idn |-> _idn,
     instr |-> instr, outq |-> outq, faulted |-> faulted, fail |-> fail, style |-> style,
     err |-> "", val |-> PyNone, trace |-> <<>>, closedUse |-> FALSE, emptyRead |-> FALSE]

\* The state after the call op(arg) that ended in context c; fail is the
\* transport call that was made to fail (0 for none).
Done(op, arg, fail, c) ==
    /\ device' = c.device
    /\ session' = c.session
    /\ _wavelength' = c._wavelength
    /\ _idn' = c._idn
    /\ instr' = c.instr
    /\ outq' = c.outq
    /\ faulted' = c.faulted
    /\ lastOp' = [op |-> op, arg |-> arg, dev0 |-> device, sess0 |-> session,
                  fail |-> fail, err |-> c.err, ret |-> c.val, trace |-> c.trace,
                  closedUse |-> c.closedUse, emptyRead |-> c.emptyRead]

\* The transport calls of an operation with at most n of them that can fail:
\* none when the operation reaches no open session.
FailAt(n) == IF device # NoDevice /\ session = "open" THEN 0..n ELSE {0}

OpenCommunication ==
    \E reachable \in BOOLEAN, f \in 0..2 :
        /\ reachable \/ f = 0
        /\ Done("open_communication", PyBool(reachable), f,
                open_communication(Call(f, "upper"), reachable))

CloseCommunication ==
    \E f \in FailAt(0) :
        Done("close_communication", PyNone, f, close_communication(Call(f, "upper")))

GetWavelength ==
    \E f \in FailAt(2) : Done("wavelength.get", PyNone, f, wavelength_get(Call(f, "upper")))

SetWavelength(I) ==
    \E v \in I.wl, f \in FailAt(3) :
        Done("wavelength.set", v, f, wavelength_set(Call(f, "upper"), v))

GetWavelengthLimits ==
    \E f \in FailAt(4) :
        Done("get_wavelength_limits", PyNone, f, get_wavelength_limits(Call(f, "upper")))

GetOutputTrigger(I) ==
    \E st \in I.styles, f \in FailAt(2) :
        Done("output_trigger.get", PyNone, f, output_trigger_get(Call(f, st)))

SetOutputTrigger(I) ==
    \E v \in I.trig, f \in FailAt(1) :
        Done("output_trigger.set", v, f, output_trigger_set(Call(f, "upper"), v))

GetSweepCycles ==
    \E f \in FailAt(2) : Done("sweep_cycles.get", PyNone, f, sweep_cycles_get(Call(f, "upper")))

SetSweepCycles(I) ==
    \E v \in I.cycles, f \in FailAt(1) :
        Done("sweep_cycles.set", PyInt(v), f, sweep_cycles_set(Call(f, "upper"), v))

GetSweepMode(I) ==
    \E st \in I.styles, f \in FailAt(2) :
        Done("sweep_mode.get", PyNone, f, sweep_mode_get(Call(f, st)))

SetSweepMode(I) ==
    \E v \in I.mode, f \in FailAt(1) :
        Done("sweep_mode.set", v, f, sweep_mode_set(Call(f, "upper"), v))

GetSweepSpeed ==
    \E f \in FailAt(2) : Done("sweep_speed.get", PyNone, f, sweep_speed_get(Call(f, "upper")))

SetSweepSpeed(I) ==
    \E v \in I.speed, f \in FailAt(1) :
        Done("sweep_speed.set", v, f, sweep_speed_set(Call(f, "upper"), v))

ConfigureSweep(I) ==
    \E a \in I.sweep, f \in FailAt(9) :
        Done("configure_sweep", Tuple(a), f, configure_sweep(Call(f, "upper"), a[1], a[2], a[3]))

StartSweep ==
    \E f \in FailAt(1) : Done("start_sweep", PyNone, f, start_sweep(Call(f, "upper")))

GetLaserStatus ==
    \E f \in FailAt(2) : Done("laser_status.get", PyNone, f, laser_status_get(Call(f, "upper")))

SetLaserStatus(I) ==
    \E v \in I.status, f \in FailAt(1) :
        Done("laser_status.set", PyBool(v), f, laser_status_set(Call(f, "upper"), v))

GetLocked ==
    \E f \in FailAt(2) : Done("locked.get", PyNone, f, locked_get(Call(f, "upper")))

SetLocked(I) ==
    \E v \in I.lock, f \in FailAt(1) :
        Done("locked.set", PyBool(v), f, locked_set(Call(f, "upper"), v))

\* Any call of the adapter's interface, with arguments drawn from I.
Step(I) ==
    \/ OpenCommunication
    \/ CloseCommunication
    \/ GetWavelength
    \/ SetWavelength(I)
    \/ GetWavelengthLimits
    \/ GetOutputTrigger(I)
    \/ SetOutputTrigger(I)
    \/ GetSweepCycles
    \/ SetSweepCycles(I)
    \/ GetSweepMode(I)
    \/ SetSweepMode(I)
    \/ GetSweepSpeed
    \/ SetSweepSpeed(I)
    \/ ConfigureSweep(I)
    \/ StartSweep
    \/ GetLaserStatus
    \/ SetLaserStatus(I)
    \/ GetLocked
    \/ SetLocked(I)

\* Arguments that repeat the instrument's power-on settings.
Defaults ==
    [wl |-> {Num(1550, 0)}, trig |-> {DISABLED}, cycles |-> {1}, mode |-> {STEP},
     speed |-> {Num(40, 0)}, sweep |-> {<<Num(1500, 0), Num(1600, 0), Num(1, 0)>>},
     status |-> {FALSE}, lock |-> {FALSE}, styles |-> {"upper"}]

Next == Step(Defaults)

Spec == Init /\ [][Next]_vars

(***************************************************************************)
(* Specifications that draw the arguments of one group of operations from   *)
(* a wider set.                                                             *)
(***************************************************************************)
MaxWlStep == 3      \* wavelengths tried: 1460 nm and MaxWlStep steps of 80 nm above it

\* wavelengths inside the instrument's limits and at least one outside them
WavelengthInputs == [Defaults EXCEPT !.wl = {Num(1460 + 80 * k, 0) : k \in 0..MaxWlStep}]

NextWavelength == Step(WavelengthInputs)

SpecWavelength == Init /\ [][NextWavelength]_vars

\* every trigger variant, answered in every letter case
TriggerInputs == [Defaults EXCEPT !.trig = TriggerOutput, !.styles = Styles]

NextTrigger == Step(TriggerInputs)

SpecTrigger == Init /\ [][NextTrigger]_vars

\* the sweep of the demo, and one whose start the instrument refuses
SweepInputs ==
    [Defaults EXCEPT !.sweep = {<<Num(1460, 0), Num(1620, 0), Num(10, 0)>>,
                                <<Num(1700, 0), Num(1610, 0), Num(20, 0)>>}]

NextSweep == Step(SweepInputs)

SpecSweep == Init /\ [][NextSweep]_vars

LockInputs == [Defaults EXCEPT !.lock = BOOLEAN]

NextLock == Step(LockInputs)

SpecLock == Init /\ [][NextLock]_vars

(***************************************************************************)
(* Properties                                                               *)
(***************************************************************************)
\* The last operation was called on a connected adapter.
Connected0 == lastOp.dev0 # NoDevice /\ lastOp.sess0 = "open"

Sent(msg) == [k |-> "W", msg |-> msg]

QueryHeads ==
    {"*IDN?", ":SOURce0:WAVelength?", ":SOURce0:WAVelength? MIN", ":SOURce0:WAVelength? MAX",
     ":TRIG0:OUTP?", ":SOURce0:WAVelength:SWEep:CYCLes?", ":SOURce0:WAVelength:SWEep:MODE?",
     ":SOURce0:WAVelength:SWEep:SPEed?", ":SOURce0:WAVelength:SWEep:STARt?",
     ":SOURce0:WAVelength:SWEep:STEP?", ":SOURce0:WAVelength:SWEep:STOP?",
     ":SOURce0:POWer:STATe?", ":LOCK?"}

\* C1: while the connection handle is absent, every operation other than
\* open_communication ends in an error.
C1_AbsentHandleFails ==
    (lastOp.op \notin {"__init__", "open_communication"} /\ lastOp.dev0 = NoDevice)
        => lastOp.err # ""

\* C2: close_communication invalidates the handle (the adapter is back in the
\* state of a fresh instance) and nothing is handed to a closed session.
C2_CloseInvalidatesHandle ==
    /\ session = "closed" => device = NoDevice
    /\ ~lastOp.closedUse

\* C3: on a connected adapter configure_sweep sends the three sets in the
\* order STEP, STARt, STOP, then the three queries, each followed by its read,
\* and returns (start, stop, step) as the instrument answered them, in
\* nanometres; configure_sweep(1460, 1620, 10) returns (1460, 1620, 10).
C3_ConfigureSweep ==
    (lastOp.op = "configure_sweep" /\ Connected0 /\ lastOp.fail = 0) =>
        LET a == lastOp.arg.items
            tr == lastOp.trace
        IN  /\ lastOp.err = ""
            /\ Len(tr) = 9
            /\ tr[1] = Sent(Msg(":SOURce0:WAVelength:SWEep:STEP ", a[3], "NM"))
            /\ tr[2] = Sent(Msg(":SOURce0:WAVelength:SWEep:STARt ", a[1], "NM"))
            /\ tr[3] = Sent(Msg(":SOURce0:WAVelength:SWEep:STOP ", a[2], "NM"))
            /\ tr[4] = Sent(Query(":SOURce0:WAVelength:SWEep:STARt?"))
            /\ tr[5].k = "R"
            /\ tr[6] = Sent(Query(":SOURce0:WAVelength:SWEep:STEP?"))
            /\ tr[7].k = "R"
            /\ tr[8] = Sent(Query(":SOURce0:WAVelength:SWEep:STOP?"))
            /\ tr[9].k = "R"
            /\ lastOp.ret = Tuple(<<Times1e9(tr[5].line), Times1e9(tr[9].line),
                                    Times1e9(tr[7].line)>>)
            /\ a = <<Num(1460, 0), Num(1620, 0), Num(10, 0)>> => lastOp.ret = lastOp.arg

C3_Witness ==
    /\ lastOp.op = "configure_sweep" /\ Connected0 /\ lastOp.fail = 0
    /\ lastOp.arg = Tuple(<<Num(1460, 0), Num(1620, 0), Num(10, 0)>>)
    /\ lastOp.ret = Tuple(<<Num(1460, 0), Num(1620, 0), Num(10, 0)>>)
    /\ Text(lastOp.trace[1].msg) = ":SOURce0:WAVelength:SWEep:STEP 10NM"

\* C4 (the set): on a connected adapter, setting wavelength to v sends one
\* set command carrying v and the NM suffix, then one wavelength query, and
\* caches the answer converted to nanometres, which is v when v is in range.
C4_SetThenConfirm ==
    (lastOp.op = "wavelength.set" /\ Connected0 /\ lastOp.fail = 0) =>
        LET tr == lastOp.trace
        IN  /\ lastOp.err = ""
            /\ Len(tr) = 3
            /\ tr[1] = Sent(Msg(":SOURce0:WAVelength ", lastOp.arg, "NM"))
            /\ tr[2] = Sent(Query(":SOURce0:WAVelength?"))
            /\ tr[3].k = "R"
            /\ _wavelength = Times1e9(tr[3].line)
            /\ InRange(FromNano(lastOp.arg)) => _wavelength = lastOp.arg

\* C4 (the get that follows): it is a live query and returns v.
C4_GetAfterSet ==
    (/\ lastOp.op = "wavelength.set" /\ Connected0 /\ lastOp.fail = 0
     /\ InRange(FromNano(lastOp.arg))
     /\ lastOp'.op = "wavelength.get" /\ lastOp'.fail = 0) =>
        /\ lastOp'.err = ""
        /\ Len(lastOp'.trace) = 2
        /\ lastOp'.trace[1] = Sent(Query(":SOURce0:WAVelength?"))
        /\ lastOp'.trace[2].k = "R"
        /\ lastOp'.ret = Times1e9(lastOp'.trace[2].line)
        /\ lastOp'.ret = lastOp.arg

\* C4: setting wavelength to an in-range v writes v with the NM suffix and
\* confirms it by a query whose answer, in nanometres, is cached; a get that
\* follows queries the instrument again and returns v.
C4_WavelengthRoundTrip == []C4_SetThenConfirm /\ [][C4_GetAfterSet]_vars

C4_Witness ==
    /\ lastOp.op = "wavelength.get" /\ Connected0 /\ lastOp.fail = 0
    /\ lastOp.ret = Num(1620, 0)
    /\ _wavelength = Num(1620, 0)
    /\ instr.wl = Num(1620, -9)

\* a set of output_trigger followed at once by a get
C5_GetAfterSet ==
    (/\ lastOp.op = "output_trigger.set" /\ Connected0 /\ lastOp.fail = 0
     /\ lastOp'.op = "output_trigger.get" /\ lastOp'.fail = 0) =>
        /\ lastOp.arg \in TriggerOutput
        /\ lastOp'.err = ""
        /\ lastOp'.ret = lastOp.arg

\* C5: setting output_trigger to any of the four variants and getting it back
\* returns that variant, in whatever letter case the instrument answers.
C5_TriggerRoundTrip == [][C5_GetAfterSet]_vars

C5_Witness ==
    /\ lastOp.op = "output_trigger.get" /\ Connected0 /\ lastOp.fail = 0
    /\ lastOp.ret = SWSTART
    /\ lastOp.trace[2] = [k |-> "R", line |-> Line(Lower(SWSTART.name))]

\* C6 (the set): locked = True sends ':LOCK 1,1234' and locked = False sends
\* ':LOCK 0,1234', and nothing else.
C6_LockCommand ==
    (lastOp.op = "locked.set" /\ Connected0 /\ lastOp.fail = 0) =>
        /\ lastOp.err = ""
        /\ Len(lastOp.trace) = 1
        /\ lastOp.trace[1].k = "W"
        /\ Text(lastOp.trace[1].msg) =
               IF lastOp.arg = PyBool(TRUE) THEN ":LOCK 1,1234" ELSE ":LOCK 0,1234"

\* C6 (the get that follows): it returns the value that was set.
C6_GetAfterSet ==
    (/\ lastOp.op = "locked.set" /\ Connected0 /\ lastOp.fail = 0
     /\ lastOp'.op = "locked.get" /\ lastOp'.fail = 0) =>
        /\ lastOp'.err = ""
        /\ lastOp'.ret = lastOp.arg

\* C6: the lock commands carry the flag and the passcode 1234, and a locked
\* get returns the value of the last locked set.
C6_Locked == []C6_LockCommand /\ [][C6_GetAfterSet]_vars

C6_Witness ==
    /\ lastOp.op = "locked.get" /\ Connected0 /\ lastOp.fail = 0
    /\ lastOp.ret = PyBool(TRUE)
    /\ instr.lock = 1

\* C7: get_wavelength_limits returns (min, max) in nanometres: each answer of
\* the instrument, which is in metres, times 1e9 as in the wavelength getter.
C7_LimitsInNanometres ==
    (lastOp.op = "get_wavelength_limits" /\ Connected0 /\ lastOp.fail = 0) =>
        /\ lastOp.err = ""
        /\ lastOp.trace[1] = Sent(Query(":SOURce0:WAVelength? MIN"))
        /\ lastOp.trace[3] = Sent(Query(":SOURce0:WAVelength? MAX"))
        /\ lastOp.ret = Tuple(<<Times1e9(lastOp.trace[2].line),
                                Times1e9(lastOp.trace[4].line)>>)

\* The outcome of a property access made in the current state.
Raises(r) == r.err # ""

SilentGet(r) == r.err = "" /\ r.val = PyNone

SilentSet(r) == r.err = "" /\ r.trace = <<>> /\ r.instr = instr

GettersNow ==
    LET c == Call(0, "upper")
    IN  <<wavelength_get(c), output_trigger_get(c), sweep_cycles_get(c), sweep_mode_get(c),
          sweep_speed_get(c), laser_status_get(c), locked_get(c)>>

SettersNow ==
    LET c == Call(0, "upper")
    IN  <<wavelength_set(c, Num(1550, 0)), output_trigger_set(c, DISABLED),
          sweep_cycles_set(c, 1), sweep_mode_set(c, STEP), sweep_speed_set(c, Num(40, 0)),
          laser_status_set(c, FALSE), locked_set(c, FALSE)>>

\* C8: before open_communication the property accessors behave alike: either
\* every getter and every setter raises, or every setter does nothing and
\* every getter returns None.
C8_ConsistentBeforeOpen ==
    device = NoDevice =>
        \/ /\ \A i \in DOMAIN GettersNow : Raises(GettersNow[i])
           /\ \A i \in DOMAIN SettersNow : Raises(SettersNow[i])
        \/ /\ \A i \in DOMAIN GettersNow : SilentGet(GettersNow[i])
           /\ \A i \in DOMAIN SettersNow : SilentSet(SettersNow[i])

\* C9: when the transport fails on the second or third set of configure_sweep,
\* the sets before it have taken effect on the instrument, nothing else is
\* sent (no later set, no query, no set that restores a value, no second
\* attempt) and the error reaches the caller.
C9_PartialSweep ==
    (lastOp.op = "configure_sweep" /\ Connected0 /\ lastOp.fail \in {2, 3}) =>
        LET a == lastOp.arg.items
            step == Sent(Msg(":SOURce0:WAVelength:SWEep:STEP ", a[3], "NM"))
            start == Sent(Msg(":SOURce0:WAVelength:SWEep:STARt ", a[1], "NM"))
        IN  /\ lastOp.err = "VisaIOError"
            /\ lastOp.ret = PyNone
            /\ lastOp.trace = IF lastOp.fail = 2 THEN <<step>> ELSE <<step, start>>
            /\ instr.step = FromNano(a[3])
            /\ (lastOp.fail = 3 /\ InRange(FromNano(a[1]))) => instr.start = FromNano(a[1])

\* the second write failed: the new step with the old start and stop
C9_Witness ==
    /\ lastOp.op = "configure_sweep" /\ Connected0 /\ lastOp.fail = 2
    /\ lastOp.err = "VisaIOError"
    /\ instr.step = Num(10, -9)
    /\ instr.start = InstrInit.start
    /\ instr.stop = InstrInit.stop

RECURSIVE Paired(_)
\* every query is followed by one read and every command by none
Paired(tr) ==
    IF tr = <<>> THEN TRUE
    ELSE IF tr[1].k # "W" THEN FALSE
    ELSE IF tr[1].msg.head \in QueryHeads
         THEN Len(tr) >= 2 /\ tr[2].k = "R" /\ Paired(SubSeq(tr, 3, Len(tr)))
    ELSE Paired(Tail(tr))

\* C10: with a transport that does not fail, no response is left unread after
\* an operation, no read is issued while none is pending, every query is
\* followed by exactly one read before the next write, and a set command or
\* start_sweep by none.
C10_QueryResponsePairing ==
    /\ ~faulted => outq = <<>>
    /\ ~lastOp.emptyRead
    /\ lastOp.fail = 0 => Paired(lastOp.trace)

C10_Witness ==
    /\ lastOp.op = "start_sweep" /\ Connected0 /\ lastOp.fail = 0
    /\ lastOp.err = ""
    /\ Len(lastOp.trace) = 1
    /\ outq = <<>>
    /\ _wavelength # PyNone

====
